---- MODULE Spec2Model ----
(***************************************************************************)
(* Model of the RAG retrieval core of ollama-chat-backend:                 *)
(*   app/rag/chunker.py    TextChunker                                     *)
(*   app/rag/embedder.py   Embedder                                        *)
(*   app/rag/retriever.py  Retriever                                       *)
(*   app/db/qdrant.py      QdrantDB                                        *)
(*   app/db/mongodb.py     MongoDB (agents, files)                         *)
(*   app/api/routes/       the upload_file, delete_file, create_agent,     *)
(*                         update_agent and chat handlers                  *)
(* A Python str is a sequence of one-character strings.  Each component    *)
(* has its own specification (SpecChunk, SpecEmbed, SpecFuse, SpecRerank,  *)
(* SpecRetr, SpecRepeat, SpecHybrid, SpecUpload, SpecService); the         *)
(* variables of the other components keep their idle values there.         *)
(***************************************************************************)
EXTENDS Integers, Sequences, FiniteSets, TLC

VARIABLES
    \* ---- TextChunker ----
    text,          \* the document handed to semantic_chunk
    chunk_size,    \* self.chunk_size
    chunk_overlap, \* self.chunk_overlap
    ck_pc,         \* position inside semantic_chunk / chunk_by_size
    tokens,        \* chunk_by_size: tokens
    start,         \* chunk_by_size: start
    chunk_index,   \* chunk_by_size: chunk_index
    chunks,        \* the list being built / returned
    merged_chunks, \* merge_small_chunks(chunks): None until it has run
    \* ---- Embedder.get_embeddings_batch ----
    texts,         \* the input list
    batch_size,    \* batch_size
    em_pc,         \* position inside get_embeddings_batch
    batch_i,       \* the loop variable i
    tasks,         \* one get_embedding call per text: its position, what
                   \* the provider answered, and its return value
    done_order,    \* the calls of the running batch, in completion order
    embeddings,    \* the list being built / returned
    \* ---- Retriever._fuse_results, applied to arbitrary lists ----
    fu_vector,     \* vector_results
    fu_keyword,    \* keyword_results
    fu_vw,         \* vector_weight (tenths)
    fu_kw,         \* keyword_weight (tenths)
    fu_out,        \* _fuse_results(A, B, w1, w2): None until it has run
    fu_swapped,    \* _fuse_results(B, A, w2, w1): None until it has run
    \* ---- Retriever.rerank_results, applied to arbitrary lists ----
    rr_in,         \* results
    rr_top_k,      \* top_k
    rr_out,        \* the returned list: None until it has run
    \* ---- Retriever.retrieve_context ----
    rt_stored,     \* the agent's collection as the vector store ranks it
                   \* for the query: descending score
    rt_limit,      \* limit
    rt_hybrid,     \* use_hybrid
    rt_rerank,     \* rerank
    rt_threshold,  \* score_threshold (None or a score)
    rt_pc,         \* the stage the call is at
    rt_results,    \* results
    rt_trace,      \* the stages executed so far, with what happened
    rt_run,        \* 1 for the first call, 2 for its repetition
    rt_first,      \* the list the first call returned
    \* ---- the HTTP handlers and the two stores ----
    db_agents,     \* MongoDB agents collection, in insertion order; an
                   \* agent's id is its position
    db_files,      \* MongoDB files collection, in insertion order; a file's
                   \* id is its position
    qd_collections,\* Qdrant: the vector size of each agent's collection, 0
                   \* when the collection does not exist
    qd_points,     \* Qdrant: the stored points of all collections
    call           \* the last handler call: its arguments' effect, the I/O
                   \* calls it issued in order, and its response

ckVars == <<text, chunk_size, chunk_overlap, ck_pc, tokens, start, chunk_index, chunks,
            merged_chunks>>

emVars == <<texts, batch_size, em_pc, batch_i, tasks, done_order, embeddings>>

fuVars == <<fu_vector, fu_keyword, fu_vw, fu_kw, fu_out, fu_swapped>>

rrVars == <<rr_in, rr_top_k, rr_out>>

rtVars == <<rt_stored, rt_limit, rt_hybrid, rt_rerank, rt_threshold, rt_pc, rt_results,
            rt_trace, rt_run, rt_first>>

svVars == <<db_agents, db_files, qd_collections, qd_points, call>>

vars == <<ckVars, emVars, fuVars, rrVars, rtVars, svVars>>

\* What the actions of one component leave alone.
notCk == <<emVars, fuVars, rrVars, rtVars, svVars>>
notEm == <<ckVars, fuVars, rrVars, rtVars, svVars>>
notFu == <<ckVars, emVars, rrVars, rtVars, svVars>>
notRr == <<ckVars, emVars, fuVars, rtVars, svVars>>
notRt == <<ckVars, emVars, fuVars, rrVars, svVars>>
notSv == <<ckVars, emVars, fuVars, rrVars, rtVars>>

\* ------------------------------------------------------------------------
\* Bounds of the model
\* ------------------------------------------------------------------------
MaxLines == 4
MaxChunkSize == 4
MaxOverlap == 2
MaxChunks == 2 * MaxLines + 2
MaxTexts == 3
MaxBatch == 3
MaxFuseLen == 2
MaxRerankLen == 3
MaxTopK == 4
MaxVectors == 5
MaxLimit == 5
MaxRepeatVectors == 3
MaxAgents == 2
MaxFiles == 2
MaxWords == 3
MaxMinSize == 2

\* ------------------------------------------------------------------------
\* Python values
\* ------------------------------------------------------------------------
\* Optional[T]: None is the empty tuple, a value v is <<v>>.
None == <<>>
Some(v) == <<v>>

NL == "\n"
SP == " "
HASH == "#"

IsSpace(c) == c \in {SP, NL}

Min(a, b) == IF a <= b THEN a ELSE b
Max(a, b) == IF a >= b THEN a ELSE b

\* seq[lo:hi] with Python's treatment of negative and out-of-range indices.
PyIndex(i, n) == IF i < 0 THEN Max(i + n, 0) ELSE Min(i, n)
PySlice(seq, lo, hi) ==
    LET n == Len(seq)
        l == PyIndex(lo, n)
        h == PyIndex(hi, n)
    IN  IF l >= h THEN <<>> ELSE SubSeq(seq, l + 1, h)

\* sep.join(parts) for a list of strings.
RECURSIVE Join(_, _)
Join(parts, sep) ==
    IF parts = <<>> THEN <<>>
    ELSE IF Len(parts) = 1 THEN parts[1]
    ELSE parts[1] \o sep \o Join(Tail(parts), sep)

\* text.split('\n'): always at least one piece.
RECURSIVE SplitLines(_)
SplitLines(t) ==
    IF \A i \in 1..Len(t) : t[i] # NL THEN <<t>>
    ELSE LET p == CHOOSE i \in 1..Len(t) :
                     t[i] = NL /\ \A j \in 1..(i - 1) : t[j] # NL
         IN  <<SubSeq(t, 1, p - 1)>> \o SplitLines(SubSeq(t, p + 1, Len(t)))

\* str.strip(): leading and trailing whitespace removed.
RECURSIVE LStrip(_)
LStrip(t) == IF t # <<>> /\ IsSpace(t[1]) THEN LStrip(Tail(t)) ELSE t
RECURSIVE RStrip(_)
RStrip(t) ==
    IF t # <<>> /\ IsSpace(t[Len(t)]) THEN RStrip(SubSeq(t, 1, Len(t) - 1)) ELSE t
Strip(t) == LStrip(RStrip(t))

\* ------------------------------------------------------------------------
\* Token Counter (tiktoken encoding): a token is a piece of text; a blank
\* line "\n\n" and a space followed by a word character are single tokens,
\* so the token count of a concatenation is not the sum of the counts.
\* ------------------------------------------------------------------------
RECURSIVE Encode(_)
Encode(t) ==
    IF t = <<>> THEN <<>>
    ELSE IF Len(t) >= 2 /\ t[1] = NL /\ t[2] = NL
         THEN <<SubSeq(t, 1, 2)>> \o Encode(SubSeq(t, 3, Len(t)))
    ELSE IF Len(t) >= 2 /\ t[1] = SP /\ ~IsSpace(t[2])
         THEN <<SubSeq(t, 1, 2)>> \o Encode(SubSeq(t, 3, Len(t)))
    ELSE <<SubSeq(t, 1, 1)>> \o Encode(Tail(t))

RECURSIVE Decode(_)
Decode(toks) == IF toks = <<>> THEN <<>> ELSE toks[1] \o Decode(Tail(toks))

count_tokens(t) == Len(Encode(t))

\* ------------------------------------------------------------------------
\* Structure Splitter
\* ------------------------------------------------------------------------
\* Number of leading '#' of a line.
RECURSIVE LeadingHashes(_)
LeadingHashes(line) ==
    IF line # <<>> /\ line[1] = HASH THEN 1 + LeadingHashes(Tail(line)) ELSE 0

\* Length of the whitespace run of line that starts at position p.
RECURSIVE SpaceRun(_, _)
SpaceRun(line, p) ==
    IF p <= Len(line) /\ IsSpace(line[p]) THEN 1 + SpaceRun(line, p + 1) ELSE 0

\* re.match(r'^(#{1,6})\s+(.+)$', line)
header_match(line) ==
    LET k == LeadingHashes(line)
    IN  /\ k \in 1..6
        /\ SpaceRun(line, k + 1) >= 1
        /\ Len(line) >= k + 2

\* header_match.group(2): \s+ is greedy and gives back one character when it
\* reaches the end of the line.
header_title(line) ==
    LET k == LeadingHashes(line)
        r == SpaceRun(line, k + 1)
        from == Min(k + r, Len(line) - 1) + 1
    IN  SubSeq(line, from, Len(line))

Section(label, content) == [section |-> label, content |-> content]

\* The loop of split_by_headers over lines[i..], with the code's
\* current_section / current_content / sections.
RECURSIVE HeaderLoop(_, _, _, _, _)
HeaderLoop(lines, i, current_section, current_content, sections) ==
    IF i > Len(lines)
    THEN IF current_content # <<>>
         THEN Append(sections, Section(current_section, Join(current_content, <<NL>>)))
         ELSE sections
    ELSE IF header_match(lines[i])
         THEN HeaderLoop(lines, i + 1, Some(header_title(lines[i])), <<lines[i]>>,
                         IF current_content # <<>>
                         THEN Append(sections,
                                     Section(current_section, Join(current_content, <<NL>>)))
                         ELSE sections)
         ELSE HeaderLoop(lines, i + 1, current_section,
                         Append(current_content, lines[i]), sections)

\* Variant of split_by_headers: the text before the first header is dropped.
split_by_headers_NoPreamble(t) ==
    SelectSeq(HeaderLoop(SplitLines(t), 1, None, <<>>, <<>>),
              LAMBDA sec : sec.section # None)

\* TextChunker.split_by_headers
split_by_headers(t) == HeaderLoop(SplitLines(t), 1, None, <<>>, <<>>)

\* re.split(r'\n\s*\n', t): the pieces between the separators.  A separator
\* starts at a newline and runs to the last newline of the whitespace run
\* that follows it.
RECURSIVE ParaSplit(_, _, _)
ParaSplit(t, s, i) ==
    IF i > Len(t) THEN <<SubSeq(t, s, Len(t))>>
    ELSE IF t[i] = NL
         THEN LET q == i + SpaceRun(t, i + 1)
                  nls == {e \in (i + 1)..q : t[e] = NL}
              IN  IF nls = {} THEN ParaSplit(t, s, i + 1)
                  ELSE LET e == CHOOSE x \in nls : \A y \in nls : y <= x
                       IN  <<SubSeq(t, s, i - 1)>> \o ParaSplit(t, e + 1, e + 1)
         ELSE ParaSplit(t, s, i + 1)

RECURSIVE StripNonEmpty(_)
StripNonEmpty(ps) ==
    IF ps = <<>> THEN <<>>
    ELSE IF Strip(ps[1]) # <<>> THEN <<Strip(ps[1])>> \o StripNonEmpty(Tail(ps))
    ELSE StripNonEmpty(Tail(ps))

\* Variant of split_by_paragraphs: only the first paragraph is returned.
split_by_paragraphs_First(t) ==
    LET ps == StripNonEmpty(ParaSplit(t, 1, 1))
    IN  SubSeq(ps, 1, Min(1, Len(ps)))

\* TextChunker.split_by_paragraphs
split_by_paragraphs(t) == StripNonEmpty(ParaSplit(t, 1, 1))

\* ------------------------------------------------------------------------
\* Chunker
\* ------------------------------------------------------------------------
\* The source argument of semantic_chunk.
Source == Some("test.txt")

\* TextChunker.create_chunk
create_chunk(content, index, section, source) ==
    [content |-> content, chunk_index |-> index, section |-> section,
     source |-> source, token_count |-> count_tokens(content)]

\* The local state of semantic_chunk: the list and the running index.
Acc(cs, idx) == [chunks |-> cs, chunk_index |-> idx]

\* Variant of Emit: the append without "chunk_index += 1".
Emit_NoIncrement(acc, content, section) ==
    Acc(Append(acc.chunks, create_chunk(content, acc.chunk_index, section, Source)),
        acc.chunk_index)

\* chunks.append(create_chunk(...)); chunk_index += 1
Emit(acc, content, section) ==
    Acc(Append(acc.chunks, create_chunk(content, acc.chunk_index, section, Source)),
        acc.chunk_index + 1)

\* Variant of exceeds_chunk_size: nothing is too large.
exceeds_chunk_size_Never(combined) == FALSE

\* if self.count_tokens(combined) > self.chunk_size
exceeds_chunk_size(combined) == count_tokens(combined) > chunk_size

\* The paragraph loop of one oversized section (and the flush after it).
RECURSIVE ParagraphLoop(_, _, _, _, _)
ParagraphLoop(paragraphs, i, current_chunk, section_name, acc) ==
    IF i > Len(paragraphs)
    THEN IF current_chunk # <<>> THEN Emit(acc, current_chunk, section_name) ELSE acc
    ELSE LET para == paragraphs[i]
             combined == IF current_chunk # <<>>
                         THEN current_chunk \o <<NL, NL>> \o para
                         ELSE para
         IN  IF exceeds_chunk_size(combined)
             THEN ParagraphLoop(paragraphs, i + 1, para, section_name,
                                IF current_chunk # <<>>
                                THEN Emit(acc, current_chunk, section_name)
                                ELSE acc)
             ELSE ParagraphLoop(paragraphs, i + 1, combined, section_name, acc)

\* Variant of SectionChunks: a section that fits in one chunk is skipped.
SectionChunks_SkipSmall(section_data, acc) ==
    IF count_tokens(section_data.content) <= chunk_size
    THEN acc
    ELSE ParagraphLoop(split_by_paragraphs(section_data.content), 1, <<>>,
                       section_data.section, acc)

\* The body of "for section_data in sections".
SectionChunks(section_data, acc) ==
    IF count_tokens(section_data.content) <= chunk_size
    THEN Emit(acc, section_data.content, section_data.section)
    ELSE ParagraphLoop(split_by_paragraphs(section_data.content), 1, <<>>,
                       section_data.section, acc)

RECURSIVE SectionLoop(_, _, _)
SectionLoop(sections, i, acc) ==
    IF i > Len(sections) THEN acc
    ELSE SectionLoop(sections, i + 1, SectionChunks(sections[i], acc))

\* TextChunker._apply_overlap
apply_overlap(cs) == cs

\* ---- inputs ----
LineKinds == {<<>>, <<"a">>, <<SP>>, <<HASH, SP, "a">>, <<HASH, SP, "b">>}
Texts == {Join(ls, <<NL>>) : ls \in UNION {[1..n -> LineKinds] : n \in 1..MaxLines}}

ChunkIdle ==
    /\ text = <<>>
    /\ chunk_size = 0
    /\ chunk_overlap = 0
    /\ ck_pc = "idle"
    /\ tokens = <<>>
    /\ start = 0
    /\ chunk_index = 0
    /\ chunks = <<>>
    /\ merged_chunks = None

ChunkStart ==
    /\ text \in Texts
    /\ chunk_size \in 1..MaxChunkSize
    /\ chunk_overlap \in 0..MaxOverlap
    /\ ck_pc = "start"
    /\ tokens = <<>>
    /\ start = 0
    /\ chunk_index = 0
    /\ chunks = <<>>
    /\ merged_chunks = None

\* semantic_chunk, more than one section: the header / paragraph path.
SemanticChunkSections ==
    /\ ck_pc = "start"
    /\ LET sections == split_by_headers(text)
       IN  /\ Len(sections) > 1
           /\ LET acc == SectionLoop(sections, 1, Acc(<<>>, 0))
              IN  /\ chunks' = IF Len(acc.chunks) > 1 /\ chunk_overlap > 0
                               THEN apply_overlap(acc.chunks)
                               ELSE acc.chunks
                  /\ chunk_index' = acc.chunk_index
    /\ ck_pc' = "done"
    /\ UNCHANGED <<text, chunk_size, chunk_overlap, tokens, start, merged_chunks, notCk>>

\* semantic_chunk, a single section: enters chunk_by_size (its lines before
\* the loop).
SemanticChunkFallback ==
    /\ ck_pc = "start"
    /\ Len(split_by_headers(text)) <= 1
    /\ tokens' = Encode(text)
    /\ chunks' = <<>>
    /\ chunk_index' = 0
    /\ start' = 0
    /\ ck_pc' = "by_size"
    /\ UNCHANGED <<text, chunk_size, chunk_overlap, merged_chunks, notCk>>

\* The index chunk_by_size gives the chunk it is about to append.
NextChunkIndex == chunk_index

\* Variant of next_start: the next window starts where the last one ended.
next_start_NoOverlap(end) == end

\* start = end - overlap
next_start(end) == end - chunk_overlap

\* One iteration of the while loop of chunk_by_size.
ChunkBySizeStep ==
    /\ ck_pc = "by_size"
    /\ start < Len(tokens)
    /\ Len(chunks) < MaxChunks
    /\ LET end == Min(start + chunk_size, Len(tokens))
           chunk_tokens == PySlice(tokens, start, end)
           chunk == create_chunk(Decode(chunk_tokens), NextChunkIndex, None, Source)
       IN  /\ chunks' = Append(chunks, chunk)
           /\ chunk_index' = chunk_index + 1
           /\ IF end >= Len(tokens)
              THEN ck_pc' = "done" /\ start' = start
              ELSE ck_pc' = "by_size" /\ start' = next_start(end)
    /\ UNCHANGED <<text, chunk_size, chunk_overlap, tokens, merged_chunks, notCk>>

\* The while condition of chunk_by_size is false: return chunks.
ChunkBySizeReturn ==
    /\ ck_pc = "by_size"
    /\ start >= Len(tokens)
    /\ ck_pc' = "done"
    /\ UNCHANGED <<text, chunk_size, chunk_overlap, tokens, start, chunk_index, chunks,
                   merged_chunks, notCk>>

\* The loop of merge_small_chunks over chunks[i..].  A Chunk is an object:
\* objs holds the chunk objects of the given list by position, current is
\* the position of the object current_chunk refers to, merged the positions
\* appended to merged_chunks.  Merging assigns to the fields of the object
\* current_chunk refers to.
RECURSIVE MergeLoop(_, _, _, _, _)
MergeLoop(objs, i, current, merged, min_size) ==
    IF i > Len(objs) THEN [objs |-> objs, merged |-> Append(merged, current)]
    ELSE LET combined_content == objs[current].content \o <<NL, NL>> \o objs[i].content
             combined_tokens == count_tokens(combined_content)
         IN  IF objs[current].token_count < min_size /\ combined_tokens <= chunk_size
             THEN MergeLoop([objs EXCEPT ![current].content = combined_content,
                                         ![current].token_count = combined_tokens],
                            i + 1, current, merged, min_size)
             ELSE MergeLoop(objs, i + 1, i, Append(merged, current), min_size)

\* TextChunker.merge_small_chunks: the objects of the given list after the
\* call, and the positions of the objects in the returned list.
merge_small_chunks(cs, min_size) ==
    IF Len(cs) <= 1 THEN [objs |-> cs, merged |-> [k \in 1..Len(cs) |-> k]]
    ELSE MergeLoop(cs, 2, 1, <<>>, min_size)

\* merge_small_chunks is applied to the list semantic_chunk returned.
MergeSmallChunks ==
    /\ ck_pc = "done"
    /\ \E min_size \in 0..MaxMinSize :
       \E r \in {merge_small_chunks(chunks, min_size)} :
           /\ chunks' = r.objs
           /\ merged_chunks' = Some([k \in 1..Len(r.merged) |-> r.objs[r.merged[k]]])
    /\ ck_pc' = "merged"
    /\ UNCHANGED <<text, chunk_size, chunk_overlap, tokens, start, chunk_index, notCk>>

ChunkNext ==
    \/ SemanticChunkSections
    \/ SemanticChunkFallback
    \/ ChunkBySizeStep
    \/ ChunkBySizeReturn
    \/ MergeSmallChunks

\* ------------------------------------------------------------------------
\* Embedding Client
\* ------------------------------------------------------------------------
\* What the provider can answer to each request of get_embedding.
CheckResponses == {"listed", "absent", "bad_status", "exception"}
PullResponses == {"accepted", "bad_status", "exception"}
EmbedResponses == {"vector", "no_vector", "bad_status", "exception"}

\* The vector the provider computes for a text.
Vector(t) == <<t, t + 1>>

\* Embedder.check_model: the value it returns for a provider answer.
check_model(resp) == resp = "listed"

\* Variant of pull_model: every answer counts as an accepted pull.
pull_model_AnyAnswer(resp) == TRUE

\* Embedder.pull_model
pull_model(resp) == resp = "accepted"

\* get_embedding after the POST /api/embeddings: its return value.
embed_result(t, resp) ==
    IF resp = "exception" THEN None
    ELSE IF resp \in {"vector", "no_vector"}
         THEN IF resp = "vector" THEN Some(Vector(t)) ELSE None
         ELSE None

\* Variant of after_pull: the result of pull_model is ignored.
after_pull_Ignored(ok) == "embed"

\* get_embedding after a failed check_model: where it goes for the value
\* pull_model returned.
after_pull(ok) == IF ok THEN "embed" ELSE "done"

\* A get_embedding call that has not started; sent lists the requests the
\* call has sent to the provider, in order.
NewTask == [pc |-> "new", resolved |-> "none", embed |-> "none", result |-> None,
            sent |-> <<>>]

\* Variant of Batch: every remaining text is started at once.
Batch_AllRemaining == (batch_i + 1)..Len(texts)

\* The positions of texts[i:i + batch_size].
Batch == (batch_i + 1)..Min(batch_i + batch_size, Len(texts))

\* Variant of gather: the results in completion order (asyncio.as_completed).
gather_AsCompleted(first, last) ==
    [k \in 1..(last - first + 1) |-> tasks[done_order[k]].result]

\* asyncio.gather(*[...]): the results of the batch, in the order of the
\* awaitables.
gather(first, last) == [k \in 1..(last - first + 1) |-> tasks[first + k - 1].result]

EmbedIdle ==
    /\ texts = <<>>
    /\ batch_size = 0
    /\ em_pc = "idle"
    /\ batch_i = 0
    /\ tasks = <<>>
    /\ done_order = <<>>
    /\ embeddings = <<>>

EmbedStart ==
    /\ \E n \in 0..MaxTexts : texts = [i \in 1..n |-> i]
    /\ batch_size \in 1..MaxBatch
    /\ em_pc = "loop"
    /\ batch_i = 0
    /\ tasks = [i \in 1..Len(texts) |-> NewTask]
    /\ done_order = <<>>
    /\ embeddings = <<>>

\* for i in range(0, len(texts), batch_size): the calls of one batch start.
BatchStart ==
    /\ em_pc = "loop"
    /\ batch_i < Len(texts)
    /\ tasks' = [k \in 1..Len(texts) |->
                    IF k \in Batch
                    THEN [tasks[k] EXCEPT !.pc = "check", !.sent = <<"tags">>]
                    ELSE tasks[k]]
    /\ done_order' = <<>>
    /\ em_pc' = "gather"
    /\ UNCHANGED <<texts, batch_size, batch_i, embeddings, notEm>>

\* get_embedding(texts[k]): check_model returns.
CheckModel(k, resp) ==
    /\ em_pc = "gather"
    /\ tasks[k].pc = "check"
    /\ tasks' = [tasks EXCEPT ![k] =
                    IF check_model(resp)
                    THEN [@ EXCEPT !.pc = "embed", !.resolved = "listed",
                                   !.sent = Append(@, "embeddings")]
                    ELSE [@ EXCEPT !.pc = "pull", !.sent = Append(@, "pull")]]
    /\ UNCHANGED <<texts, batch_size, em_pc, batch_i, done_order, embeddings, notEm>>

\* get_embedding(texts[k]): pull_model returns.
PullModel(k, resp) ==
    /\ em_pc = "gather"
    /\ tasks[k].pc = "pull"
    /\ LET to == after_pull(pull_model(resp))
       IN  /\ tasks' = [tasks EXCEPT ![k] =
                           [@ EXCEPT !.pc = to,
                                     !.resolved = IF resp = "accepted" THEN "pulled"
                                                  ELSE "unresolved",
                                     !.result = None,
                                     !.sent = IF to = "embed"
                                              THEN Append(@, "embeddings") ELSE @]]
           /\ done_order' = IF to = "done" THEN Append(done_order, k) ELSE done_order
    /\ UNCHANGED <<texts, batch_size, em_pc, batch_i, embeddings, notEm>>

\* get_embedding(texts[k]): the embeddings request returns (or raises).
EmbedRequest(k, resp) ==
    /\ em_pc = "gather"
    /\ tasks[k].pc = "embed"
    /\ tasks' = [tasks EXCEPT ![k] =
                    [@ EXCEPT !.pc = "done", !.embed = resp,
                              !.result = embed_result(texts[k], resp)]]
    /\ done_order' = Append(done_order, k)
    /\ UNCHANGED <<texts, batch_size, em_pc, batch_i, embeddings, notEm>>

\* Every call of the batch has returned: embeddings.extend(batch_embeddings).
GatherReturn ==
    /\ em_pc = "gather"
    /\ \A k \in Batch : tasks[k].pc = "done"
    /\ embeddings' = embeddings \o gather(batch_i + 1, Min(batch_i + batch_size, Len(texts)))
    /\ batch_i' = batch_i + batch_size
    /\ em_pc' = "loop"
    /\ UNCHANGED <<texts, batch_size, tasks, done_order, notEm>>

\* The range is exhausted: return embeddings.
BatchReturn ==
    /\ em_pc = "loop"
    /\ batch_i >= Len(texts)
    /\ em_pc' = "done"
    /\ UNCHANGED <<texts, batch_size, batch_i, tasks, done_order, embeddings, notEm>>

EmbedNext ==
    \/ BatchStart
    \/ \E k \in 1..Len(texts) : \E resp \in CheckResponses : CheckModel(k, resp)
    \/ \E k \in 1..Len(texts) : \E resp \in PullResponses : PullModel(k, resp)
    \/ \E k \in 1..Len(texts) : \E resp \in EmbedResponses : EmbedRequest(k, resp)
    \/ GatherReturn
    \/ BatchReturn

\* ------------------------------------------------------------------------
\* Retrieval results.  A score is an integer number of tenths; a weight is
\* an integer number of tenths, so a combined score is in hundredths.
\* ------------------------------------------------------------------------
Result(id, score, payload) == [id |-> id, score |-> score, payload |-> payload]

Ids(results) == [k \in 1..Len(results) |-> results[k].id]
IdSet(results) == {results[k].id : k \in 1..Len(results)}

\* {result["id"]: result for result in results}: the last entry of an id wins.
DictOf(results) ==
    [id \in IdSet(results) |->
        results[CHOOSE k \in 1..Len(results) :
                    /\ results[k].id = id
                    /\ \A j \in (k + 1)..Len(results) : results[j].id # id]]

\* The orders in which a Python set with the elements S can be iterated.
RECURSIVE Orders(_)
Orders(S) ==
    IF S = {} THEN {<<>>}
    ELSE UNION {{<<x>> \o o : o \in Orders(S \ {x})} : x \in S}

\* list.sort(key=lambda x: x[field], reverse=True) / sorted(...): stable.
RECURSIVE InsertDesc(_, _, _)
InsertDesc(sorted, x, field) ==
    IF sorted = <<>> THEN <<x>>
    ELSE IF sorted[1][field] >= x[field]
         THEN <<sorted[1]>> \o InsertDesc(Tail(sorted), x, field)
         ELSE <<x>> \o sorted

RECURSIVE SortPrefix(_, _, _)
SortPrefix(seq, k, field) ==
    IF k = 0 THEN <<>> ELSE InsertDesc(SortPrefix(seq, k - 1, field), seq[k], field)

sort_desc(seq, field) == SortPrefix(seq, Len(seq), field)

\* seq[:n] for n >= 0.
Take(seq, n) == SubSeq(seq, 1, Min(n, Len(seq)))

\* ------------------------------------------------------------------------
\* Fusion Engine
\* ------------------------------------------------------------------------
\* Variant of all_ids: the keyword ids are left out.
all_ids_VectorOnly(vector_results, keyword_results) == IdSet(vector_results)

\* all_ids = set(vector_dict.keys()) | set(keyword_dict.keys())
all_ids(vector_results, keyword_results) ==
    IdSet(vector_results) \cup IdSet(keyword_results)

\* Variant of combined_score: both sides weighted with vector_weight.
combined_score_OneWeight(vector_weight, vector_score, keyword_weight, keyword_score) ==
    vector_weight * vector_score + vector_weight * keyword_score

\* combined_score
combined_score(vector_weight, vector_score, keyword_weight, keyword_score) ==
    vector_weight * vector_score + keyword_weight * keyword_score

\* The body of "for result_id in all_ids".
fuse_one(result_id, vector_dict, keyword_dict, vector_weight, keyword_weight) ==
    LET in_vector == result_id \in DOMAIN vector_dict
        in_keyword == result_id \in DOMAIN keyword_dict
        vector_score == IF in_vector THEN vector_dict[result_id].score ELSE 0
        keyword_score == IF in_keyword THEN keyword_dict[result_id].score ELSE 0
        base == IF in_vector THEN vector_dict[result_id] ELSE keyword_dict[result_id]
    IN  [id |-> base.id, score |-> base.score, payload |-> base.payload,
         combined_score |-> combined_score(vector_weight, vector_score,
                                           keyword_weight, keyword_score),
         vector_score |-> vector_score,
         keyword_score |-> keyword_score]

\* Retriever._fuse_results, the set all_ids being iterated in the order given.
fuse_results(vector_results, keyword_results, vector_weight, keyword_weight, order) ==
    [k \in 1..Len(order) |->
        fuse_one(order[k], DictOf(vector_results), DictOf(keyword_results),
                 vector_weight, keyword_weight)]

FuseIds == {1, 2}
FuseScores == {1, 2}
Weights == {0, 3, 7}
ResultLists(payload, maxLen) ==
    UNION {[1..n -> {Result(id, sc, payload) : id \in FuseIds, sc \in FuseScores}] :
           n \in 0..maxLen}

FuseIdle ==
    /\ fu_vector = <<>>
    /\ fu_keyword = <<>>
    /\ fu_vw = 0
    /\ fu_kw = 0
    /\ fu_out = <<"idle">>
    /\ fu_swapped = <<"idle">>

FuseStart ==
    /\ fu_vector \in ResultLists("vector", MaxFuseLen)
    /\ fu_keyword \in ResultLists("keyword", MaxFuseLen)
    /\ fu_vw \in Weights
    /\ fu_kw \in Weights
    /\ fu_out = None
    /\ fu_swapped = None

\* fuse(A, B, w1, w2)
Fuse ==
    /\ fu_out = None
    /\ \E order \in Orders(all_ids(fu_vector, fu_keyword)) :
           fu_out' = Some(fuse_results(fu_vector, fu_keyword, fu_vw, fu_kw, order))
    /\ UNCHANGED <<fu_vector, fu_keyword, fu_vw, fu_kw, fu_swapped, notFu>>

\* fuse(B, A, w2, w1)
FuseSwapped ==
    /\ fu_swapped = None
    /\ \E order \in Orders(all_ids(fu_keyword, fu_vector)) :
           fu_swapped' = Some(fuse_results(fu_keyword, fu_vector, fu_kw, fu_vw, order))
    /\ UNCHANGED <<fu_vector, fu_keyword, fu_vw, fu_kw, fu_out, notFu>>

FuseNext == Fuse \/ FuseSwapped

\* ------------------------------------------------------------------------
\* Reranker
\* ------------------------------------------------------------------------
\* Variant of rerank_results: the sort without the truncation.
rerank_results_NoCut(results, top_k) == sort_desc(results, "score")

\* Variant of rerank_results: truncation without the sort.
rerank_results_Unsorted(results, top_k) == Take(results, top_k)

\* Retriever.rerank_results
rerank_results(results, top_k) ==
    IF Len(results) <= top_k THEN results
    ELSE Take(sort_desc(results, "score"), top_k)

RerankIds == {1, 2, 3}
RerankScores == {1, 2}

RerankIdle ==
    /\ rr_in = <<>>
    /\ rr_top_k = 0
    /\ rr_out = <<"idle">>

RerankStart ==
    /\ rr_in \in UNION {[1..n -> {Result(id, sc, "doc") : id \in RerankIds,
                                                          sc \in RerankScores}] :
                        n \in 0..MaxRerankLen}
    /\ rr_top_k \in 0..MaxTopK
    /\ rr_out = None

Rerank ==
    /\ rr_out = None
    /\ rr_out' = Some(rerank_results(rr_in, rr_top_k))
    /\ UNCHANGED <<rr_in, rr_top_k, notRr>>

RerankNext == Rerank

\* ------------------------------------------------------------------------
\* Retrieval Orchestrator
\* ------------------------------------------------------------------------
\* The defaults hybrid_search is called with (tenths).
VectorWeight == 7
KeywordWeight == 3

\* What Embedder.get_embedding returns for the query, and how the search of
\* the vector store ends.
QueryEmbeddings == {"vector", "failed"}
SearchOutcomes == {"ok", "error"}

\* The vector store's search: the best `limit` points, by descending score,
\* among those at or above score_threshold.
RECURSIVE AtLeast(_, _)
AtLeast(results, threshold) ==
    IF results = <<>> THEN <<>>
    ELSE IF threshold = None \/ results[1].score >= threshold[1]
         THEN <<results[1]>> \o AtLeast(Tail(results), threshold)
         ELSE AtLeast(Tail(results), threshold)

\* QdrantDB.search_vectors
search_vectors(limit, score_threshold, outcome) ==
    IF outcome = "ok" THEN Take(AtLeast(rt_stored, score_threshold), limit) ELSE <<>>

\* Variant of keyword_search: it finds the first stored point.
keyword_search_Finds == Take(rt_stored, 1)

\* Retriever.keyword_search
keyword_search == <<>>

\* Variant of hybrid_rank: the fused list is truncated without the sort.
hybrid_rank_Unsorted(vector_results, limit, order) ==
    Take(fuse_results(vector_results, keyword_search, VectorWeight, KeywordWeight, order),
         limit)

\* Retriever.hybrid_search after the two searches: fuse, sort, truncate.
hybrid_rank(vector_results, limit, order) ==
    Take(sort_desc(fuse_results(vector_results, keyword_search,
                                VectorWeight, KeywordWeight, order),
                   "combined_score"),
         limit)

\* Retriever.filter_by_threshold
filter_by_threshold(results, threshold) == AtLeast(results, Some(threshold))

\* Variant of after_rank: the final threshold filter is skipped.
after_rank_NoFilter == "return"

\* Variant of after_search: the fusion runs whether or not use_hybrid is set.
after_search_AlwaysFuse == "fuse"

\* Where retrieve_context goes after the search, after ranking, and after
\* reranking / truncation.
after_search == IF rt_hybrid THEN "fuse" ELSE "rank"
after_rank == IF rt_threshold # None THEN "threshold" ELSE "return"

Scores == {1, 2, 3}

\* Collections of n points, ids in the order the store ranks them.
RECURSIVE Ranked(_, _)
Ranked(n, top) ==
    IF n = 0 THEN {<<>>}
    ELSE UNION {{<<sc>> \o r : r \in Ranked(n - 1, sc)} : sc \in {x \in Scores : x <= top}}

Collections(maxN) ==
    {[k \in 1..Len(scs) |-> Result(k, scs[k], "doc")] :
        scs \in UNION {Ranked(n, 3) : n \in 0..maxN}}

RetrIdle ==
    /\ rt_stored = <<>>
    /\ rt_limit = 0
    /\ rt_hybrid = FALSE
    /\ rt_rerank = FALSE
    /\ rt_threshold = None
    /\ rt_pc = "idle"
    /\ rt_results = <<>>
    /\ rt_trace = <<>>
    /\ rt_run = 0
    /\ rt_first = None

RetrStart(maxN) ==
    /\ rt_stored \in Collections(maxN)
    /\ rt_limit \in 0..MaxLimit
    /\ rt_hybrid \in BOOLEAN
    /\ rt_rerank \in BOOLEAN
    /\ rt_threshold \in {None} \cup {Some(t) : t \in Scores}
    /\ rt_pc = "embed_query"
    /\ rt_results = <<>>
    /\ rt_trace = <<>>
    /\ rt_run = 1
    /\ rt_first = None

rtInputs == <<rt_stored, rt_limit, rt_hybrid, rt_rerank, rt_threshold>>

\* vector_search: the query embedding; an empty list when there is none.
RtEmbedQuery(embedding) ==
    /\ rt_pc = "embed_query"
    /\ rt_trace' = Append(rt_trace, <<"EMBED_QUERY", embedding>>)
    /\ rt_results' = <<>>
    /\ rt_pc' = IF embedding = "vector" THEN "search" ELSE after_search
    /\ UNCHANGED <<rtInputs, rt_run, rt_first, notRt>>

\* vector_search: the search of the vector store, limit * 2 candidates.
RtSearch(outcome) ==
    /\ rt_pc = "search"
    /\ rt_trace' = Append(rt_trace, <<"SEARCH", outcome>>)
    /\ rt_results' = search_vectors(rt_limit * 2, rt_threshold, outcome)
    /\ rt_pc' = after_search
    /\ UNCHANGED <<rtInputs, rt_run, rt_first, notRt>>

\* hybrid_search: keyword search, fusion, sort by combined score, truncate.
RtFuse ==
    /\ rt_pc = "fuse"
    /\ \E order \in Orders(all_ids(rt_results, keyword_search)) :
           rt_results' = hybrid_rank(rt_results, rt_limit * 2, order)
    /\ rt_trace' = Append(rt_trace, <<"FUSE", "ok">>)
    /\ rt_pc' = "rank"
    /\ UNCHANGED <<rtInputs, rt_run, rt_first, notRt>>

\* if rerank and len(results) > 0: rerank_results(top_k=limit)
RtRerank ==
    /\ rt_pc = "rank"
    /\ rt_rerank /\ Len(rt_results) > 0
    /\ rt_results' = rerank_results(rt_results, rt_limit)
    /\ rt_trace' = Append(rt_trace, <<"RERANK", "ok">>)
    /\ rt_pc' = after_rank
    /\ UNCHANGED <<rtInputs, rt_run, rt_first, notRt>>

\* else: results[:limit]
RtTruncate ==
    /\ rt_pc = "rank"
    /\ ~(rt_rerank /\ Len(rt_results) > 0)
    /\ rt_results' = Take(rt_results, rt_limit)
    /\ rt_trace' = Append(rt_trace, <<"TRUNCATE", "ok">>)
    /\ rt_pc' = after_rank
    /\ UNCHANGED <<rtInputs, rt_run, rt_first, notRt>>

\* if score_threshold is not None: filter_by_threshold
RtThreshold ==
    /\ rt_pc = "threshold"
    /\ rt_results' = filter_by_threshold(rt_results, rt_threshold[1])
    /\ rt_trace' = Append(rt_trace, <<"THRESHOLD", "ok">>)
    /\ rt_pc' = "return"
    /\ UNCHANGED <<rtInputs, rt_run, rt_first, notRt>>

\* return results
RtReturn ==
    /\ rt_pc = "return"
    /\ rt_pc' = "done"
    /\ rt_first' = IF rt_run = 1
                   THEN Some([results |-> rt_results, trace |-> rt_trace])
                   ELSE rt_first
    /\ UNCHANGED <<rtInputs, rt_results, rt_trace, rt_run, notRt>>

\* The same request is made again: same collection, same arguments.
RtRepeat ==
    /\ rt_pc = "done"
    /\ rt_run = 1
    /\ rt_run' = 2
    /\ rt_pc' = "embed_query"
    /\ rt_results' = <<>>
    /\ rt_trace' = <<>>
    /\ UNCHANGED <<rtInputs, rt_first, notRt>>

RetrNext ==
    \/ \E embedding \in QueryEmbeddings : RtEmbedQuery(embedding)
    \/ \E outcome \in SearchOutcomes : RtSearch(outcome)
    \/ RtFuse
    \/ RtRerank
    \/ RtTruncate
    \/ RtThreshold
    \/ RtReturn

RetrRepeatNext == RetrNext \/ RtRepeat

\* The request of a hybrid call is made again with use_hybrid = False: same
\* collection, same other arguments.
RtPlain ==
    /\ rt_pc = "done"
    /\ rt_run = 1
    /\ rt_hybrid
    /\ rt_run' = 2
    /\ rt_hybrid' = FALSE
    /\ rt_pc' = "embed_query"
    /\ rt_results' = <<>>
    /\ rt_trace' = <<>>
    /\ UNCHANGED <<rt_stored, rt_limit, rt_rerank, rt_threshold, rt_first, notRt>>

RetrPlainNext == RetrNext \/ RtPlain

\* ------------------------------------------------------------------------
\* Settings (core/config.py)
\* ------------------------------------------------------------------------
\* settings.default_chunk_size and settings.default_chunk_overlap, scaled
\* down from 512 and 50 tokens.
default_chunk_size == 2
default_chunk_overlap == 1

\* settings.approved_embedding_models and settings.approved_chat_models (two
\* and one of the approved names), and the names a request can carry.
approved_embedding_models == {"nomic-embed-text", "bge-m3"}
approved_chat_models == {"llama3.1"}
EmbeddingModelNames == approved_embedding_models \cup {"unapproved-embedder"}
ChatModelNames == approved_chat_models \cup {"unapproved-chat"}

\* ------------------------------------------------------------------------
\* Collaborators of the handlers
\* ------------------------------------------------------------------------
\* The length of the vectors of a model (768 and 1024 in the source's table,
\* scaled down).
Dimension(model) == IF model = "nomic-embed-text" THEN 2 ELSE 3

\* The vector the provider computes for a text: of the model's length, and
\* determined by the text.
Embedding(t, model) == [text |-> t, length |-> Dimension(model)]

\* Embedder.get_embeddings_batch: one entry per text, in input order; None
\* for the texts whose embedding failed.
get_embeddings_batch(contents, model, failed) ==
    [i \in 1..Len(contents) |->
        IF i \in failed THEN None ELSE Some(Embedding(contents[i], model))]

\* TextChunker.chunk_by_size as a function of the token list: the while loop
\* from `start`, with the chunks appended so far.
RECURSIVE chunk_by_size_loop(_, _, _)
chunk_by_size_loop(toks, from, acc) ==
    IF from >= Len(toks) THEN acc
    ELSE LET end == Min(from + chunk_size, Len(toks))
             chunk == create_chunk(Decode(PySlice(toks, from, end)), Len(acc),
                                   None, Source)
         IN  IF end >= Len(toks) THEN Append(acc, chunk)
             ELSE chunk_by_size_loop(toks, next_start(end), Append(acc, chunk))

\* TextChunker.semantic_chunk
semantic_chunk(t) ==
    LET sections == split_by_headers(t)
    IN  IF Len(sections) > 1
        THEN LET acc == SectionLoop(sections, 1, Acc(<<>>, 0))
             IN  IF Len(acc.chunks) > 1 /\ chunk_overlap > 0
                 THEN apply_overlap(acc.chunks)
                 ELSE acc.chunks
        ELSE chunk_by_size_loop(Encode(t), 0, <<>>)

\* What TextPreprocessor.preprocess returns: clean_text turns every run of
\* whitespace into one space and strips the ends, so the text is one line of
\* words separated by single spaces (possibly empty).  One text of each
\* length, its words all different.
Words == <<"a", "b", "c", "d", "e", "f">>
PreprocessedTexts(maxWords) ==
    {Join([k \in 1..n |-> <<Words[k]>>], <<SP>>) : n \in 0..Min(maxWords, Len(Words))}

\* The documents uploaded while agents are created and changed: the empty
\* one and the one-word one, a single chunk at most.
ServiceTexts == {t \in PreprocessedTexts(MaxWords) : Len(t) <= 1}

\* ---- MongoDB ----
Agent(name, chat_model, embedding_model, is_active) ==
    [name |-> name, chat_model |-> chat_model, embedding_model |-> embedding_model,
     is_active |-> is_active]

\* MongoDB.get_active_agent
get_active_agent(agent_id) ==
    IF agent_id \in 1..Len(db_agents) /\ db_agents[agent_id].is_active
    THEN Some(db_agents[agent_id])
    ELSE None

\* MongoDB.create_file: the inserted record.
File(agent_id) == [agent_id |-> agent_id, chunk_count |-> 0, is_deleted |-> FALSE]

\* MongoDB.update_file_chunk_count
update_file_chunk_count(files, file_id, chunk_count) ==
    [files EXCEPT ![file_id].chunk_count = chunk_count]

\* Variant of mark_file_deleted: the record is left as it is.
mark_file_deleted_Skipped(files, file_id) == files

\* MongoDB.mark_file_deleted
mark_file_deleted(files, file_id) == [files EXCEPT ![file_id].is_deleted = TRUE]

\* How a write to MongoDB or to Qdrant ends.
MongoOutcomes == {"ok", "exception"}
StoreOutcomes == {"completed", "exception"}

\* ---- Qdrant ----
\* The points upsert_vectors builds: id "{file_id}_{chunk_idx}", and the
\* payload {agent_id, file_id, chunk_index, **payload}.
upsert_points(agent_id, file_id, vectors, payloads, chunk_indices) ==
    [k \in 1..Min(Len(vectors), Min(Len(payloads), Len(chunk_indices))) |->
        [collection |-> agent_id,
         id |-> <<file_id, chunk_indices[k]>>,
         vector |-> vectors[k],
         payload |-> payloads[k] @@ [agent_id |-> agent_id, file_id |-> file_id,
                                     chunk_index |-> chunk_indices[k]]]]

\* Variant of upsert_accepts: vectors of any length are stored.
upsert_accepts_AnyLength(agent_id, points) == qd_collections[agent_id] # 0

\* client.upsert raises unless the collection exists and every vector has
\* the collection's size.
upsert_accepts(agent_id, points) ==
    /\ qd_collections[agent_id] # 0
    /\ \A k \in 1..Len(points) : points[k].vector.length = qd_collections[agent_id]

\* The stored points after an upsert: a point replaces the stored point of
\* the same collection and id.
upserted(stored, points) ==
    {p \in stored : \A k \in 1..Len(points) :
                        ~(points[k].collection = p.collection /\ points[k].id = p.id)}
    \cup {points[k] : k \in 1..Len(points)}

\* ------------------------------------------------------------------------
\* upload_file (api/routes/files.py)
\* ------------------------------------------------------------------------
filename == "test.txt"

\* The payload upload_file builds for a chunk.
upload_payload(chunk) ==
    [section |-> IF chunk.section = None THEN <<>> ELSE chunk.section[1],
     source |-> IF chunk.source = None THEN filename ELSE chunk.source[1]]

\* Variant of no_valid_embeddings: the check is never true.
no_valid_embeddings_Unchecked(valid_embeddings) == FALSE

\* if not valid_embeddings
no_valid_embeddings(valid_embeddings) == valid_embeddings = <<>>

\* The outcome of the try block: the step that raised ("none" when it
\* returned), its locals, the I/O calls it issued, and whether the upsert
\* was applied.
Tried(failed_at, cs, embs, valid, points, io, stored) ==
    [failed_at |-> failed_at, chunks |-> cs, embeddings |-> embs, valid |-> valid,
     points |-> points, io |-> io, stored |-> stored]

\* for chunk, embedding in zip(chunks, embeddings): if embedding -- the
\* positions that are kept.
valid_indices(embs) == SelectSeq([i \in 1..Len(embs) |-> i], LAMBDA i : embs[i] # None)

\* The points upload_file hands to upsert_vectors: the kept embeddings and
\* their payloads, with chunk_indices = list(range(len(valid_chunks))).
upload_points(agent_id, file_id, cs, embs) ==
    LET valid == valid_indices(embs)
        valid_chunks == [k \in 1..Len(valid) |-> cs[valid[k]]]
        valid_embeddings == [k \in 1..Len(valid) |-> embs[valid[k]][1]]
        valid_payloads == [k \in 1..Len(valid) |-> upload_payload(cs[valid[k]])]
        chunk_indices == [k \in 1..Len(valid_chunks) |-> k - 1]
    IN  upsert_points(agent_id, file_id, valid_embeddings, valid_payloads, chunk_indices)

\* The try block of upload_file, given the chunks and what
\* get_embeddings_batch returned for them.
upload_try(agent_id, file_id, kind, cs, embs, upsert_outcome, count_outcome) ==
    IF kind = "preprocess_error"
    THEN Tried("preprocess", <<>>, <<>>, <<>>, <<>>, <<>>, FALSE)
    ELSE LET valid == valid_indices(embs)
             points == upload_points(agent_id, file_id, cs, embs)
             embedded == <<"embedder.get_embeddings_batch">>
         IN  IF no_valid_embeddings(valid)
             THEN Tried("embed", cs, embs, valid, <<>>, embedded, FALSE)
             ELSE IF ~(upsert_outcome = "completed" /\ upsert_accepts(agent_id, points))
             THEN Tried("upsert", cs, embs, valid, points,
                        embedded \o <<"qdrant.upsert">>, FALSE)
             ELSE IF count_outcome # "ok"
             THEN Tried("chunk_count", cs, embs, valid, points,
                        embedded \o <<"qdrant.upsert", "mongodb.update_file_chunk_count">>,
                        TRUE)
             ELSE Tried("none", cs, embs, valid, points,
                        embedded \o <<"qdrant.upsert", "mongodb.update_file_chunk_count">>,
                        TRUE)

\* What an upload request carries: a body over the size limit, a body whose
\* preprocessing raises, or a body that preprocesses to a text.
UploadKinds == {"too_large", "preprocess_error", "text"}

\* The response and the record of a call that ended before the try block.
Rejected(op, status, io) == [op |-> op, status |-> status, io |-> io]

\* The record of an upload_file call that created a file record.
Uploaded(agent_id, file_id, r) ==
    [op |-> "upload_file",
     status |-> IF r.failed_at = "none" THEN 200 ELSE 500,
     io |-> <<"mongodb.get_active_agent", "mongodb.create_file">> \o r.io
            \o (IF r.failed_at = "none" THEN <<>> ELSE <<"mongodb.mark_file_deleted">>),
     agent_id |-> agent_id,
     file_id |-> file_id,
     failed_at |-> r.failed_at,
     chunks |-> r.chunks,
     embeddings |-> r.embeddings,
     points |-> r.points,
     chunks_created |-> IF r.failed_at = "none" THEN Len(r.valid) ELSE 0]

\* The files collection after the try block and its except clause.
uploaded_files(files, agent_id, file_id, r) ==
    IF r.failed_at = "none"
    THEN update_file_chunk_count(Append(files, File(agent_id)), file_id, Len(r.valid))
    ELSE mark_file_deleted(Append(files, File(agent_id)), file_id)

\* POST /upload
UploadFile(documents) ==
    \E agent_id \in 1..MaxAgents, kind \in UploadKinds :
      \E text_content \in IF kind = "text" THEN documents ELSE {<<>>} :
      \E cs \in {semantic_chunk(text_content)} :
      \E failed \in SUBSET (1..Len(cs)) :
      \E upsert_outcome \in IF failed = 1..Len(cs) THEN {"completed"} ELSE StoreOutcomes :
      \E count_outcome \in IF upsert_outcome = "completed" THEN MongoOutcomes ELSE {"ok"} :
        /\ Len(db_files) < MaxFiles
        /\ \E agent \in {get_active_agent(agent_id)} :
               IF agent = None
               THEN /\ call' = Rejected("upload_file", 404, <<"mongodb.get_active_agent">>)
                    /\ UNCHANGED <<db_files, qd_points>>
               ELSE IF kind = "too_large"
               THEN /\ call' = Rejected("upload_file", 413, <<"mongodb.get_active_agent">>)
                    /\ UNCHANGED <<db_files, qd_points>>
               ELSE \E r \in {upload_try(agent_id, Len(db_files) + 1, kind, cs,
                                          get_embeddings_batch(
                                              [i \in 1..Len(cs) |-> cs[i].content],
                                              agent[1].embedding_model, failed),
                                          upsert_outcome, count_outcome)} :
                        /\ db_files' = uploaded_files(db_files, agent_id,
                                                      Len(db_files) + 1, r)
                        /\ qd_points' = IF r.stored THEN upserted(qd_points, r.points)
                                        ELSE qd_points
                        /\ call' = Uploaded(agent_id, Len(db_files) + 1, r)
        /\ UNCHANGED <<db_agents, qd_collections, notSv>>

\* MongoDB.get_file: deleted records are found too.
get_file(file_id) == IF file_id \in 1..Len(db_files) THEN Some(db_files[file_id]) ELSE None

\* QdrantDB.delete_vectors_by_file: the points left when the delete is
\* applied (every point of the collection whose payload names the file is
\* removed).
delete_vectors_by_file(stored, agent_id, file_id) ==
    {p \in stored : ~(p.collection = agent_id /\ p.payload.file_id = file_id)}

\* DELETE /{file_id}.  current_agent is whatever agent the request names.
DeleteFile ==
    \E file_id \in 1..MaxFiles, current_agent \in 1..MaxAgents :
      \E file_record \in {get_file(file_id)} :
      \E delete_outcome \in IF file_record # None /\ current_agent = file_record[1].agent_id
                            THEN StoreOutcomes ELSE {"exception"} :
      \E mark_outcome \in IF delete_outcome = "completed" THEN MongoOutcomes ELSE {"ok"} :
        /\ IF file_record = None
           THEN /\ call' = Rejected("delete_file", 404, <<"mongodb.get_file">>)
                /\ UNCHANGED <<db_files, qd_points>>
           ELSE IF current_agent # file_record[1].agent_id
           THEN /\ call' = Rejected("delete_file", 403, <<"mongodb.get_file">>)
                /\ UNCHANGED <<db_files, qd_points>>
           ELSE IF ~(delete_outcome = "completed" /\ qd_collections[current_agent] # 0)
           THEN /\ call' = Rejected("delete_file", 500,
                                    <<"mongodb.get_file", "qdrant.delete">>)
                /\ UNCHANGED <<db_files, qd_points>>
           ELSE /\ qd_points' = delete_vectors_by_file(qd_points, current_agent, file_id)
                /\ db_files' = IF mark_outcome = "ok"
                               THEN mark_file_deleted(db_files, file_id)
                               ELSE db_files
                /\ call' = Rejected("delete_file",
                                    IF mark_outcome = "ok" THEN 200 ELSE 500,
                                    <<"mongodb.get_file", "qdrant.delete",
                                      "mongodb.mark_file_deleted">>)
        /\ UNCHANGED <<db_agents, qd_collections, notSv>>

\* search_vectors: the result built from a stored point and its score.
search_hit(p, score) == Result(p.id, score, p.payload)

\* chat: payload.get("content", "")
chat_content(result) ==
    IF "content" \in DOMAIN result.payload THEN result.payload.content ELSE <<>>

\* ------------------------------------------------------------------------
\* create_agent, update_agent (api/routes/agents.py)
\* ------------------------------------------------------------------------
AgentNames == {"support", "sales"}

\* The record of a create_agent, update_agent or chat call; invalid tells
\* whether the request carried an unapproved model name or an empty query.
Handled(op, status, io, invalid) ==
    [op |-> op, status |-> status, io |-> io, invalid |-> invalid]

\* MongoDB.get_agent_by_name
get_agent_by_name(name) ==
    IF \E a \in 1..Len(db_agents) : db_agents[a].name = name
    THEN Some(CHOOSE a \in 1..Len(db_agents) : db_agents[a].name = name)
    ELSE None

\* Embedder.get_embedding_dimension: the length of a probe embedding, or the
\* entry of the table of known models when the probe fails.
get_embedding_dimension(model, probe) ==
    IF probe = "vector" THEN Some(Embedding(<<"t", "e", "s", "t">>, model).length)
    ELSE IF model \in approved_embedding_models THEN Some(Dimension(model))
    ELSE None

\* QdrantDB.create_collection: an existing collection is left as it is.
create_collection(collections, agent_id, vector_size, outcome) ==
    IF outcome = "completed" /\ collections[agent_id] = 0
    THEN [collections EXCEPT ![agent_id] = vector_size]
    ELSE collections

\* POST /agents
CreateAgent ==
    \E name \in AgentNames, chat_model \in ChatModelNames,
       embedding_model \in EmbeddingModelNames :
      \E probe \in IF embedding_model \in approved_embedding_models
                   THEN QueryEmbeddings ELSE {"failed"} :
      \E outcome \in IF embedding_model \in approved_embedding_models
                     THEN StoreOutcomes ELSE {"exception"} :
        /\ Len(db_agents) < MaxAgents
        /\ \E invalid \in {chat_model \notin approved_chat_models
                            \/ embedding_model \notin approved_embedding_models} :
               IF get_agent_by_name(name) # None
               THEN /\ call' = Handled("create_agent", 400,
                                       <<"mongodb.get_agent_by_name">>, invalid)
                    /\ UNCHANGED <<db_agents, qd_collections>>
               ELSE IF invalid
               THEN /\ call' = Handled("create_agent", 400,
                                       <<"mongodb.get_agent_by_name">>, invalid)
                    /\ UNCHANGED <<db_agents, qd_collections>>
               ELSE \E vector_size \in {get_embedding_dimension(embedding_model, probe)} :
                        /\ db_agents' = Append(db_agents,
                                               Agent(name, chat_model, embedding_model, TRUE))
                        /\ qd_collections' =
                               IF vector_size # None
                               THEN create_collection(qd_collections, Len(db_agents) + 1,
                                                      vector_size[1], outcome)
                               ELSE qd_collections
                        /\ call' = Handled("create_agent", 200,
                                           <<"mongodb.get_agent_by_name", "mongodb.create_agent",
                                             "embedder.get_embedding">>
                                           \o (IF vector_size # None
                                               THEN <<"qdrant.create_collection">> ELSE <<>>),
                                           invalid)
        /\ UNCHANGED <<db_files, qd_points, notSv>>

\* MongoDB.update_agent: $set of the fields the request carries.
update_agent(agents, agent_id, chat_model, embedding_model) ==
    [agents EXCEPT ![agent_id] =
        [@ EXCEPT !.chat_model = IF chat_model = None THEN @ ELSE chat_model[1],
                  !.embedding_model = IF embedding_model = None THEN @
                                      ELSE embedding_model[1]]]

\* PUT /agents/{agent_id}
UpdateAgent ==
    \E agent_id \in 1..MaxAgents,
       chat_model \in {None} \cup {Some(m) : m \in ChatModelNames},
       embedding_model \in {None} \cup {Some(m) : m \in EmbeddingModelNames} :
        /\ \E invalid \in {\/ (chat_model # None /\ chat_model[1] \notin approved_chat_models)
                            \/ (embedding_model # None
                                /\ embedding_model[1] \notin approved_embedding_models)} :
               IF invalid
               THEN /\ call' = Handled("update_agent", 400, <<>>, invalid)
                    /\ UNCHANGED db_agents
               ELSE IF agent_id \notin 1..Len(db_agents)
               THEN /\ call' = Handled("update_agent", 404, <<"mongodb.update_agent">>, invalid)
                    /\ UNCHANGED db_agents
               ELSE /\ db_agents' = update_agent(db_agents, agent_id, chat_model,
                                                 embedding_model)
                    /\ call' = Handled("update_agent", 200, <<"mongodb.update_agent">>, invalid)
        /\ UNCHANGED <<db_files, qd_collections, qd_points, notSv>>

\* ------------------------------------------------------------------------
\* chat (api/routes/chat.py)
\* ------------------------------------------------------------------------
Queries == {<<>>, <<SP>>, <<SP, NL>>, <<"q">>}

\* not request.query or not request.query.strip()
query_is_empty(query) == query = <<>> \/ Strip(query) = <<>>

\* POST /chat.  The module does not import settings, so the evaluation of
\* the argument settings.min_relevance_score raises NameError before
\* retrieve_context is called; the except clause answers 500.
Chat ==
    \E query \in Queries :
        /\ call' = IF query_is_empty(query)
                   THEN Handled("chat", 400, <<>>, Strip(query) = <<>>)
                   ELSE Handled("chat", 500, <<>>, Strip(query) = <<>>)
        /\ UNCHANGED <<db_agents, db_files, qd_collections, qd_points, notSv>>

\* ---- states ----
ServiceIdle ==
    /\ db_agents = <<>>
    /\ db_files = <<>>
    /\ qd_collections = [a \in 1..MaxAgents |-> 0]
    /\ qd_points = {}
    /\ call = [op |-> "idle"]

\* The TextChunker upload_file constructs.
UploadChunker ==
    /\ text = <<>>
    /\ chunk_size = default_chunk_size
    /\ chunk_overlap = default_chunk_overlap
    /\ ck_pc = "idle"
    /\ tokens = <<>>
    /\ start = 0
    /\ chunk_index = 0
    /\ chunks = <<>>
    /\ merged_chunks = None

\* One agent, created with an approved embedding model.  Its collection has
\* the size of an approved model (not necessarily the agent's present one:
\* update_agent changes the model and leaves the collection), or is missing
\* (create_collection failed).
UploadStart ==
    /\ \E m \in approved_embedding_models :
           db_agents = <<Agent("agent", "llama3.1", m, TRUE)>>
    /\ \E size \in {0} \cup {Dimension(m) : m \in approved_embedding_models} :
           qd_collections = [a \in 1..MaxAgents |-> IF a = 1 THEN size ELSE 0]
    /\ db_files = <<>>
    /\ qd_points = {}
    /\ call = [op |-> "start"]

UploadNext ==
    \/ UploadFile(PreprocessedTexts(MaxWords))
    \/ DeleteFile

\* The service after start-up: no agent, no file, no collection.
ServiceStart ==
    /\ db_agents = <<>>
    /\ db_files = <<>>
    /\ qd_collections = [a \in 1..MaxAgents |-> 0]
    /\ qd_points = {}
    /\ call = [op |-> "start"]

ServiceNext ==
    \/ CreateAgent
    \/ UpdateAgent
    \/ UploadFile(ServiceTexts)
    \/ Chat

\* ------------------------------------------------------------------------
\* Specifications
\* ------------------------------------------------------------------------
\* semantic_chunk on every bounded document.
InitChunk == ChunkStart /\ EmbedIdle /\ FuseIdle /\ RerankIdle /\ RetrIdle
             /\ ServiceIdle
SpecChunk == InitChunk /\ [][ChunkNext]_vars

\* get_embeddings_batch with every interleaving of its concurrent calls.
InitEmbed == ChunkIdle /\ EmbedStart /\ FuseIdle /\ RerankIdle /\ RetrIdle
             /\ ServiceIdle
SpecEmbed == InitEmbed /\ [][EmbedNext]_vars

\* _fuse_results on every bounded pair of result lists.
InitFuse == ChunkIdle /\ EmbedIdle /\ FuseStart /\ RerankIdle /\ RetrIdle
             /\ ServiceIdle
SpecFuse == InitFuse /\ [][FuseNext]_vars

\* rerank_results on every bounded result list.
InitRerank == ChunkIdle /\ EmbedIdle /\ FuseIdle /\ RerankStart /\ RetrIdle
              /\ ServiceIdle
SpecRerank == InitRerank /\ [][RerankNext]_vars

\* One retrieve_context call.
InitRetr == ChunkIdle /\ EmbedIdle /\ FuseIdle /\ RerankIdle /\ RetrStart(MaxVectors)
            /\ ServiceIdle
SpecRetr == InitRetr /\ [][RetrNext]_vars

\* A retrieve_context call and its repetition with the same inputs.
InitRepeat ==
    ChunkIdle /\ EmbedIdle /\ FuseIdle /\ RerankIdle /\ RetrStart(MaxRepeatVectors)
        /\ ServiceIdle
SpecRepeat == InitRepeat /\ [][RetrRepeatNext]_vars

\* A hybrid retrieve_context call and the same request without use_hybrid.
InitHybrid ==
    ChunkIdle /\ EmbedIdle /\ FuseIdle /\ RerankIdle /\ RetrStart(MaxRepeatVectors)
        /\ ServiceIdle
SpecHybrid == InitHybrid /\ [][RetrPlainNext]_vars

\* upload_file calls on one agent.
InitUpload ==
    UploadChunker /\ EmbedIdle /\ FuseIdle /\ RerankIdle /\ RetrIdle /\ UploadStart
SpecUpload == InitUpload /\ [][UploadNext]_vars

\* Any sequence of create_agent, update_agent, upload_file and chat calls.
InitService ==
    UploadChunker /\ EmbedIdle /\ FuseIdle /\ RerankIdle /\ RetrIdle /\ ServiceStart
SpecService == InitService /\ [][ServiceNext]_vars

\* ------------------------------------------------------------------------
\* Properties
\* ------------------------------------------------------------------------
Range(seq) == {seq[k] : k \in 1..Len(seq)}

\* C1: the list semantic_chunk returns, on the header / paragraph path and
\* on the fixed-size path alike, has chunk_index 0, 1, ..., n-1 in list
\* order.
C1_ChunkIndicesSequential ==
    ck_pc = "done" => \A i \in 1..Len(chunks) : chunks[i].chunk_index = i - 1

\* A document with several sections, one of them split by paragraphs.
C1_Witness ==
    /\ ck_pc = "done"
    /\ Len(split_by_headers(text)) > 1
    /\ Len(chunks) > Len(split_by_headers(text))

\* C2: get_embeddings_batch preserves input order: position i of the output
\* holds what get_embedding returned for texts[i] (its vector or null),
\* whatever the completion order of the concurrent calls.
C2_BatchOrderPreserved ==
    \A i \in 1..Len(embeddings) :
        /\ i <= Len(texts)
        /\ tasks[i].pc = "done"
        /\ embeddings[i] = tasks[i].result
        /\ embeddings[i] \in {None, Some(Vector(texts[i]))}

\* Two calls of one batch completed against input order, both with a vector.
C2_Witness ==
    /\ em_pc = "done"
    /\ Len(done_order) >= 2
    /\ done_order[1] > done_order[2]
    /\ embeddings[done_order[1]] # None
    /\ embeddings[done_order[2]] # None

\* The provider failed for texts[i]: the model was neither listed nor pulled,
\* or the embeddings request gave no vector.
ProviderFailed(i) ==
    \/ tasks[i].resolved = "unresolved"
    \/ tasks[i].embed \in {"no_vector", "bad_status", "exception"}

\* C3: get_embeddings_batch (batch_size >= 1) returns one entry per input
\* text and never aborts: a position is null exactly when the provider
\* failed for its text, every other position holds the text's vector, and a
\* call that has not returned can always take a step.
C3_PartialFailureIsolated ==
    /\ em_pc = "done" =>
          /\ Len(embeddings) = Len(texts)
          /\ \A i \in 1..Len(texts) :
                 embeddings[i] = IF ProviderFailed(i) THEN None
                                 ELSE Some(Vector(texts[i]))
    /\ em_pc # "done" => ENABLED EmbedNext

\* A returned batch with a failed text between two embedded ones.
C3_Witness ==
    /\ em_pc = "done"
    /\ Len(texts) = 3
    /\ ~ProviderFailed(1) /\ ProviderFailed(2) /\ ~ProviderFailed(3)
    /\ tasks[2].resolved = "unresolved"
    /\ embeddings[2] = None

\* The score a result list gives an id: that of its last entry with the id,
\* 0 when it has none.
ScoreIn(results, id) ==
    IF \E k \in 1..Len(results) : results[k].id = id
    THEN LET last == CHOOSE k \in 1..Len(results) :
                         /\ results[k].id = id
                         /\ \A j \in 1..Len(results) : results[j].id = id => j <= k
         IN  results[last].score
    ELSE 0

\* C4: the fused list holds every id of either input exactly once and no
\* other id, and every entry has a numeric vector_score and keyword_score,
\* 0 for a side that lacks the id.
C4_FusionUnion ==
    fu_out # None =>
        LET fused == fu_out[1]
            union == {fu_vector[k].id : k \in 1..Len(fu_vector)}
                         \cup {fu_keyword[k].id : k \in 1..Len(fu_keyword)}
        IN  /\ {fused[k].id : k \in 1..Len(fused)} = union
            /\ Len(fused) = Cardinality(union)
            /\ \A k \in 1..Len(fused) :
                   /\ fused[k].vector_score = ScoreIn(fu_vector, fused[k].id)
                   /\ fused[k].keyword_score = ScoreIn(fu_keyword, fused[k].id)
                   /\ fused[k].vector_score \in Nat
                   /\ fused[k].keyword_score \in Nat

\* One id only in the vector list (twice), another only in the keyword list.
C4_Witness ==
    /\ fu_out # None
    /\ Len(fu_vector) = 2 /\ fu_vector[1].id = 1 /\ fu_vector[2].id = 1
    /\ Len(fu_keyword) = 1 /\ fu_keyword[1].id = 2
    /\ Len(fu_out[1]) = 2

\* C5: fuse(A, B, w1, w2) and fuse(B, A, w2, w1) hold the same ids and give
\* each id the same combined_score, w1 * score in A + w2 * score in B.
C5_FusionOrderIndependent ==
    (fu_out # None /\ fu_swapped # None) =>
        /\ {<<r.id, r.combined_score>> : r \in Range(fu_out[1])}
               = {<<r.id, r.combined_score>> : r \in Range(fu_swapped[1])}
        /\ \A r \in Range(fu_out[1]) :
               r.combined_score = fu_vw * ScoreIn(fu_vector, r.id)
                                      + fu_kw * ScoreIn(fu_keyword, r.id)

\* Different weights, an id on both sides with different scores, and the two
\* fusions listing the ids in different orders.
C5_Witness ==
    /\ fu_out # None /\ fu_swapped # None
    /\ fu_vw # fu_kw /\ fu_vw > 0 /\ fu_kw > 0
    /\ \E id \in FuseIds : /\ ScoreIn(fu_vector, id) > 0
                           /\ ScoreIn(fu_keyword, id) > 0
                           /\ ScoreIn(fu_vector, id) # ScoreIn(fu_keyword, id)
    /\ Len(fu_out[1]) = 2
    /\ Ids(fu_out[1]) # Ids(fu_swapped[1])

\* How often x occurs among the entries of seq at the positions in pos.
Count(seq, pos, x) == Cardinality({k \in pos : seq[k] = x})

\* C6: rerank_results returns min(len(results), top_k) items: the input
\* unchanged when it has at most top_k items, otherwise top_k input items of
\* highest score, in descending score order.
C6_RerankTruncation ==
    rr_out # None =>
        LET out == rr_out[1]
        IN  /\ Len(out) = Min(Len(rr_in), rr_top_k)
            /\ Len(rr_in) <= rr_top_k => out = rr_in
            /\ Len(rr_in) > rr_top_k =>
                  /\ \A k \in 1..(Len(out) - 1) : out[k].score >= out[k + 1].score
                  /\ \E sel \in SUBSET (1..Len(rr_in)) :
                         /\ Cardinality(sel) = rr_top_k
                         /\ \A x \in Range(rr_in) :
                                Count(out, 1..Len(out), x) = Count(rr_in, sel, x)
                         /\ \A i \in sel : \A j \in (1..Len(rr_in)) \ sel :
                                rr_in[j].score <= rr_in[i].score

\* Three results in ascending score order cut to the best two.
C6_Witness ==
    /\ rr_out # None
    /\ Len(rr_in) = 3 /\ rr_top_k = 2
    /\ rr_in[1].score < rr_in[3].score
    /\ Len(rr_out[1]) = 2

EmbedFailed == <<"EMBED_QUERY", "failed">> \in Range(rt_trace)
SearchFailed == <<"SEARCH", "error">> \in Range(rt_trace)
Searched == <<"SEARCH", "ok">> \in Range(rt_trace)

\* The stored points at or above the threshold (all of them without one).
Qualifying ==
    {k \in 1..Len(rt_stored) :
        rt_threshold = None \/ rt_stored[k].score >= rt_threshold[1]}

\* C7: retrieve_context returns an empty list when the query embedding
\* fails, the vector store fails or has no result, or every result is below
\* the threshold; and it runs no stage twice, so the call ends after at most
\* five stages.
C7_EmptyOnFailure ==
    /\ (rt_pc = "done" /\ (EmbedFailed \/ SearchFailed \/ Qualifying = {}))
           => rt_results = <<>>
    /\ Len(rt_trace) <= 5
    /\ \A j, k \in 1..Len(rt_trace) : j # k => rt_trace[j][1] # rt_trace[k][1]

\* A hybrid, reranked call on a non-empty collection whose search failed.
C7_Witness ==
    /\ rt_pc = "done"
    /\ SearchFailed
    /\ rt_hybrid /\ rt_rerank /\ rt_limit > 0
    /\ Qualifying # {}
    /\ rt_results = <<>>

\* C8: with a score_threshold, every returned result has score >= the
\* threshold, and the threshold filter is the last stage, run after the
\* rerank / truncation stage.
C8_ThresholdLast ==
    (rt_pc = "done" /\ rt_threshold # None) =>
        /\ \A k \in 1..Len(rt_results) : rt_results[k].score >= rt_threshold[1]
        /\ Len(rt_trace) >= 2
        /\ rt_trace[Len(rt_trace)][1] = "THRESHOLD"
        /\ rt_trace[Len(rt_trace) - 1][1] \in {"RERANK", "TRUNCATE"}

\* A hybrid, reranked call that returns results while points are below the
\* threshold.
C8_Witness ==
    /\ rt_pc = "done"
    /\ rt_threshold # None
    /\ rt_hybrid /\ rt_rerank
    /\ rt_results # <<>>
    /\ Cardinality(Qualifying) < Len(rt_stored)

\* C9: when the query embedding and the search succeed and limit >= 1, the
\* call returns the min(limit, m) best of the m stored points at or above
\* the threshold, in descending score order: the k-th result has the k-th
\* best score, and the results are distinct stored points.
C9_TopQualifying ==
    (rt_pc = "done" /\ rt_limit >= 1 /\ Searched) =>
        LET n == Min(rt_limit, Cardinality(Qualifying))
        IN  /\ Len(rt_results) = n
            /\ \A k \in 1..n :
                   /\ k \in Qualifying
                   /\ rt_results[k].score = rt_stored[k].score
                   /\ rt_results[k].id \in 1..Len(rt_stored)
                   /\ rt_stored[rt_results[k].id].score = rt_results[k].score
            /\ \A j, k \in 1..n : j # k => rt_results[j].id # rt_results[k].id

\* Five points, three at or above the threshold and two below, limit 5,
\* hybrid and reranked: exactly the three are returned.
C9_Witness ==
    /\ rt_pc = "done"
    /\ rt_hybrid /\ rt_rerank /\ rt_limit = 5
    /\ Len(rt_stored) = 5
    /\ rt_threshold # None
    /\ Cardinality(Qualifying) = 3
    /\ Len(rt_results) = 3

\* C10: a repeated call with the same inputs and the same collaborator
\* answers returns the same ordered list of ids as the first call.
C10_Deterministic ==
    (rt_pc = "done" /\ rt_run = 2 /\ rt_first[1].trace = rt_trace) =>
        Ids(rt_results) = Ids(rt_first[1].results)

\* C11: retrieve_context returns at most limit results, for every limit >= 0,
\* use_hybrid, rerank and score_threshold, although the search is asked for
\* 2 * limit candidates: after a successful search the candidate list holds
\* the min(2 * limit, m) best of the m qualifying points.
C11_AtMostLimit ==
    /\ rt_pc \in {"threshold", "return", "done"} => Len(rt_results) <= rt_limit
    /\ (rt_pc \in {"fuse", "rank"} /\ Searched) =>
           Len(rt_results) = Min(2 * rt_limit, Cardinality(Qualifying))

\* A reranked call with limit 2 on five qualifying points: four candidates
\* were fetched and two are returned.
C11_Witness ==
    /\ rt_pc = "done"
    /\ Searched
    /\ rt_rerank /\ rt_limit = 2
    /\ Cardinality(Qualifying) = 5
    /\ Len(rt_results) = 2

\* The fixed-size path has returned, with 0 <= overlap < chunk_size.
FixedSizeDone ==
    /\ ck_pc = "done"
    /\ Len(split_by_headers(text)) <= 1
    /\ chunk_overlap < chunk_size

\* The chunks are the windows [s, min(s + chunk_size, len(tokens))) of the
\* given starts, in ascending order of s.
WindowsAre(starts) ==
    /\ Len(chunks) = Cardinality(starts)
    /\ \A k \in 1..Len(chunks) :
           LET s == (k - 1) * (chunk_size - chunk_overlap)
           IN  /\ s \in starts
               /\ chunks[k].content =
                      Decode(PySlice(tokens, s, Min(s + chunk_size, Len(tokens))))

\* C12 as stated: one chunk for every window start s = k * (chunk_size -
\* overlap) with s < len(tokens).
C12_EveryWindowStart ==
    FixedSizeDone =>
        WindowsAre({s \in 0..(Len(tokens) - 1) :
                       s % (chunk_size - chunk_overlap) = 0})

\* C12 amended: chunk_by_size emits the windows of the starts s = k *
\* (chunk_size - overlap) up to and including the first window that reaches
\* the end of the token stream, that is s = 0 or s + overlap < len(tokens);
\* each chunk covers [s, min(s + chunk_size, len(tokens))), so every chunk
\* after the first starts overlap tokens before the previous chunk's end.
C12_WindowsUntilEndReached ==
    /\ FixedSizeDone =>
           WindowsAre({s \in 0..(Len(tokens) - 1) :
                          /\ s % (chunk_size - chunk_overlap) = 0
                          /\ (s = 0 \/ s + chunk_overlap < Len(tokens))})
    /\ (ck_pc = "by_size" /\ chunk_overlap < chunk_size) => Len(chunks) < MaxChunks

\* Five tokens, windows of three overlapping by one: the windows at 0 and 2
\* are emitted, the second reaches the end, and none is emitted at 4.
C12_Witness ==
    /\ FixedSizeDone
    /\ Len(tokens) = 5 /\ chunk_size = 3 /\ chunk_overlap = 1
    /\ Len(chunks) = 2

\* The content of chunk k without the overlap tokens it repeats from the
\* chunk before it (the overlap region counted once).
WithoutOverlap(k) ==
    IF k = 1 \/ Len(split_by_headers(text)) > 1 THEN chunks[k].content
    ELSE LET s == (k - 1) * (chunk_size - chunk_overlap)
             repeated == Decode(PySlice(tokens, s, s + chunk_overlap))
         IN  SubSeq(chunks[k].content, Len(repeated) + 1, Len(chunks[k].content))

\* The chunk contents concatenated in chunk_index order.
RECURSIVE Concatenated(_)
Concatenated(k) ==
    IF k = 0 THEN <<>> ELSE Concatenated(k - 1) \o WithoutOverlap(k)

\* The characters of t that are not whitespace, in order.
NonSpace(t) == SelectSeq(t, LAMBDA c : ~IsSpace(c))

\* semantic_chunk has returned (with overlap < chunk_size on the fixed-size
\* path, where the overlap regions are defined).
ChunkingDone ==
    /\ ck_pc = "done"
    /\ Len(split_by_headers(text)) <= 1 => chunk_overlap < chunk_size

\* C13 as stated: on every path the concatenation of the chunk contents in
\* chunk_index order, overlap regions counted once, is the document.
C13_CoverageExact ==
    ChunkingDone => Concatenated(Len(chunks)) = text

\* C13 amended: on the fixed-size path the concatenation, overlap regions
\* counted once, is exactly the document; on the header and paragraph paths
\* it is the document up to whitespace: every non-whitespace character is
\* kept once and in order, the newline between two sections and the
\* whitespace around paragraphs are not kept; when no section is split into
\* paragraphs, joining the contents with a newline gives the document.
C13_CoverageUpToWhitespace ==
    ChunkingDone =>
        /\ Len(split_by_headers(text)) <= 1 => Concatenated(Len(chunks)) = text
        /\ NonSpace(Concatenated(Len(chunks))) = NonSpace(text)
        /\ (\A k \in 1..Len(split_by_headers(text)) :
                count_tokens(split_by_headers(text)[k].content) <= chunk_size)
              => Join([k \in 1..Len(chunks) |-> chunks[k].content], <<NL>>) = text

\* A document with a header whose section is split into paragraphs: two
\* chunks come from one section, and the blank line between them is gone.
C13_Witness ==
    /\ ck_pc = "done"
    /\ Len(split_by_headers(text)) > 1
    /\ \E k \in 1..(Len(chunks) - 1) :
           chunks[k].section # None /\ chunks[k].section = chunks[k + 1].section
    /\ Len(Concatenated(Len(chunks))) < Len(text)

\* The label of the header line `line`, None when it is not a header.
HeaderOf(line) == IF header_match(line) THEN Some(header_title(line)) ELSE None

\* C20: every chunk's section is the title of the nearest header line at or
\* before the chunk's text, None only when no header precedes it.  On the
\* fixed-size path a header can only be the first line of the document, so it
\* is at or before every chunk; on the header path a chunk that starts with a
\* header line has that header's title, and any other chunk has the section
\* of the chunk before it (None for the first chunk).
C20_SectionIsNearestHeader ==
    ck_pc = "done" =>
        \A k \in 1..Len(chunks) :
            IF Len(split_by_headers(text)) <= 1
            THEN chunks[k].section = HeaderOf(SplitLines(text)[1])
            ELSE LET first == SplitLines(chunks[k].content)[1]
                 IN  chunks[k].section =
                        IF header_match(first) THEN HeaderOf(first)
                        ELSE IF k = 1 THEN None
                        ELSE chunks[k - 1].section

\* The last call was an upload_file whose upsert was applied.
UploadStored ==
    /\ call.op = "upload_file"
    /\ call.status \in {200, 500}
    /\ call.failed_at \in {"none", "chunk_count"}

\* C14: every point upload_file writes has id {file_id}_{i} and payload
\* chunk_index i, where i is the chunk_index the chunker gave the chunk whose
\* content was embedded into the point's vector, also when the embeddings of
\* some chunks failed.
C14_PointIndexIsChunkIndex ==
    UploadStored =>
        \A k \in 1..Len(call.points) :
            LET p == call.points[k]
            IN  /\ p \in qd_points
                /\ p.id[1] = call.file_id
                /\ p.payload.chunk_index = p.id[2]
                /\ \E i \in 1..Len(call.chunks) :
                       /\ call.chunks[i].chunk_index = p.id[2]
                       /\ call.chunks[i].content = p.vector.text

\* C15: every search result for a point upload_file indexed carries a
\* payload with source, section, content and file_id, and the content chat
\* reads from it is the text of the chunk that was embedded.
C15_PayloadHasContent ==
    \A p \in qd_points :
        LET result == search_hit(p, 1)
        IN  /\ {"source", "section", "content", "file_id"} \subseteq DOMAIN result.payload
            /\ chat_content(result) = p.vector.text

\* The last call was an upload_file that reached the embedding step.
UploadEmbedded ==
    /\ call.op = "upload_file"
    /\ call.status \in {200, 500}
    /\ "embedder.get_embeddings_batch" \in Range(call.io)

\* C16: when the provider fails for every chunk of the document, upload_file
\* answers with a failure, the record counts zero chunks, no upsert is
\* issued and no point of the file is in the vector store.
C16_AllEmbeddingsFailed ==
    (UploadEmbedded /\ \A i \in 1..Len(call.embeddings) : call.embeddings[i] = None) =>
        /\ call.status = 500
        /\ call.chunks_created = 0
        /\ db_files[call.file_id].chunk_count = 0
        /\ "qdrant.upsert" \notin Range(call.io)
        /\ \A p \in qd_points : p.id[1] # call.file_id /\ p.payload.file_id # call.file_id

\* Two chunks, both embeddings failed, on an agent whose collection has the
\* size of the agent's model.
C16_Witness ==
    /\ UploadEmbedded
    /\ Len(call.chunks) = 2
    /\ \A i \in 1..2 : call.embeddings[i] = None
    /\ qd_collections[call.agent_id] = Dimension(db_agents[call.agent_id].embedding_model)
    /\ call.status = 500

\* The last call was an upload_file that created a file record.
UploadRecorded ==
    /\ call.op = "upload_file"
    /\ call.status \in {200, 500}

UploadMismatch ==
    /\ UploadEmbedded
    /\ \E i \in 1..Len(call.embeddings) :
           /\ call.embeddings[i] # None
           /\ call.embeddings[i][1].length # qd_collections[call.agent_id]

\* Every stored point lies in an existing collection and has its size; an
\* upload with vectors of another length fails and stores none of them.
OneDimension ==
    /\ \A p \in qd_points :
           /\ qd_collections[p.collection] # 0
           /\ p.vector.length = qd_collections[p.collection]
    /\ UploadMismatch =>
           /\ call.status = 500
           /\ db_files[call.file_id].is_deleted
           /\ \A p \in qd_points : p.id[1] # call.file_id

C19_ValidationBeforeIO ==
    (call.op \in {"chat", "create_agent", "update_agent"} /\ call.invalid) =>
        call.status = 400 /\ call.io = <<>>

\* C21: semantic_chunk returns the empty list for the empty document, and at
\* least one chunk for every document that has at least one token.
C21_EmptyIffNoTokens ==
    ck_pc = "done" =>
        /\ text = <<>> => chunks = <<>>
        /\ Encode(text) # <<>> => Len(chunks) >= 1

\* The empty document has been chunked: its single empty section goes to
\* chunk_by_size, whose loop is not entered.
C21_Witness ==
    /\ ck_pc = "done"
    /\ text = <<>>
    /\ chunks = <<>>
    /\ Len(split_by_headers(text)) = 1

\* The get_embedding calls that have started and not yet returned.
InFlight == {k \in 1..Len(tasks) : tasks[k].pc \in {"check", "pull", "embed"}}

\* The number of the batch the text at position k belongs to.
BatchOf(k) == (k - 1) \div batch_size

\* C22: the batches of get_embeddings_batch run one after another: when a
\* call of a batch has started, every call of every earlier batch has
\* returned, so at most batch_size calls are in flight at any moment.
C22_BatchesSequential ==
    em_pc # "idle" =>
        /\ \A k \in 1..Len(tasks) :
               tasks[k].pc # "new" =>
                   \A j \in 1..Len(tasks) : BatchOf(j) < BatchOf(k) => tasks[j].pc = "done"
        /\ Cardinality(InFlight) <= batch_size

\* Three texts in batches of two: the first batch has returned, the call of
\* the second batch is in flight.
C22_Witness ==
    /\ em_pc = "gather"
    /\ Len(texts) = 3 /\ batch_size = 2 /\ batch_i = 2
    /\ InFlight = {3}
    /\ tasks[1].pc = "done" /\ tasks[2].pc = "done"

\* The number of requests of one kind among the requests a call has sent.
Sent(k, request) == Cardinality({p \in 1..Len(tasks[k].sent) : tasks[k].sent[p] = request})

\* C23: a get_embedding call sends its embed request only after the provider
\* listed the model or accepted a pull of it in that call; it sends at most
\* one list-models, one pull and one embed request; and when the model is
\* not listed and the pull fails it returns None without an embed request.
C23_EmbedAfterAvailability ==
    \A k \in 1..Len(tasks) :
        /\ Sent(k, "embeddings") >= 1 => tasks[k].resolved \in {"listed", "pulled"}
        /\ Sent(k, "tags") <= 1 /\ Sent(k, "pull") <= 1 /\ Sent(k, "embeddings") <= 1
        /\ (tasks[k].pc = "done" /\ tasks[k].resolved = "unresolved") =>
               /\ tasks[k].result = None
               /\ Sent(k, "embeddings") = 0

\* One call found the model missing, had its pull accepted and sent the
\* embed request; another found it missing, had its pull refused and
\* returned None.
C23_Witness ==
    /\ Len(tasks) >= 2
    /\ tasks[1].sent = <<"tags", "pull", "embeddings">>
    /\ tasks[1].resolved = "pulled"
    /\ tasks[2].pc = "done"
    /\ tasks[2].sent = <<"tags", "pull">>
    /\ tasks[2].result = None

\* semantic_chunk has called split_by_headers on the document.
HeadersSplit == ck_pc \in {"by_size", "done"}

\* C24: split_by_headers partitions the lines of the text: joining the
\* section contents with newlines gives back the text, a header line is the
\* first line of its section and gives the section its title as label, and
\* a section that does not start at a header line is the first one and has
\* the label None.
C24_HeadersPartitionLines ==
    HeadersSplit =>
        LET sections == split_by_headers(text)
        IN  /\ Join([k \in 1..Len(sections) |-> sections[k].content], <<NL>>) = text
            /\ \A k \in 1..Len(sections) :
                   LET lines == SplitLines(sections[k].content)
                   IN  /\ sections[k].section = HeaderOf(lines[1])
                       /\ \A p \in 2..Len(lines) : ~header_match(lines[p])
                       /\ ~header_match(lines[1]) =>
                              k = 1 /\ sections[k].section = None

\* A document with text before its first header and two headers: three
\* sections, the first without a label.
C24_Witness ==
    /\ ck_pc = "done"
    /\ Len(split_by_headers(text)) = 3
    /\ split_by_headers(text)[1].section = None
    /\ split_by_headers(text)[2].section = Some(<<"a">>)
    /\ split_by_headers(text)[3].section = Some(<<"b">>)
    /\ Len(SplitLines(text)) = 4

\* The chunks semantic_chunk emits for one section, as contents.
SectionOutput(section_data) ==
    LET out == SectionChunks(section_data, Acc(<<>>, 0)).chunks
    IN  [k \in 1..Len(out) |-> out[k].content]

\* The chunk contents of sections[i..], in order.
RECURSIVE OutputFrom(_, _)
OutputFrom(sections, i) ==
    IF i > Len(sections) THEN <<>>
    ELSE SectionOutput(sections[i]) \o OutputFrom(sections, i + 1)

\* out groups the paragraphs ps into consecutive runs ending at the
\* positions ends, each run joined by a blank line, and a run is closed only
\* when the next paragraph would not fit.
GreedyRuns(out, ps, ends) ==
    /\ Len(out) > 0 => ends[Len(out)] = Len(ps)
    /\ \A j \in 1..Len(out) :
           LET from == IF j = 1 THEN 1 ELSE ends[j - 1] + 1
           IN  /\ from <= ends[j]
               /\ out[j] = Join(SubSeq(ps, from, ends[j]), <<NL, NL>>)
               /\ (count_tokens(out[j]) <= chunk_size \/ from = ends[j])
               /\ j < Len(out) =>
                      count_tokens(out[j] \o <<NL, NL>> \o ps[ends[j] + 1]) > chunk_size

\* The header path has returned.
SectionsDone == ck_pc = "done" /\ Len(split_by_headers(text)) > 1

\* C25: in a section with more tokens than chunk_size the paragraphs are
\* accumulated greedily in order: every chunk of the section fits in
\* chunk_size or is a single paragraph, every paragraph is in exactly one
\* chunk, in source order, and no chunk is empty.
C25_GreedyParagraphs ==
    SectionsDone =>
        LET sections == split_by_headers(text)
        IN  /\ [k \in 1..Len(chunks) |-> chunks[k].content] = OutputFrom(sections, 1)
            /\ \A i \in 1..Len(sections) :
                   count_tokens(sections[i].content) > chunk_size =>
                       LET out == SectionOutput(sections[i])
                           ps == split_by_paragraphs(sections[i].content)
                       IN  /\ \A j \in 1..Len(out) : out[j] # <<>>
                           /\ (ps = <<>>) = (out = <<>>)
                           /\ \E ends \in [1..Len(out) -> 1..Len(ps)] :
                                  GreedyRuns(out, ps, ends)

\* A section of five tokens with chunk_size 4 whose two paragraphs fit
\* together: they are emitted as one chunk, joined by a blank line.
C25_Witness ==
    /\ SectionsDone
    /\ \E i \in 1..Len(split_by_headers(text)) :
           LET sec == split_by_headers(text)[i]
           IN  /\ count_tokens(sec.content) > chunk_size
               /\ Len(split_by_paragraphs(sec.content)) = 2
               /\ SectionOutput(sec) = <<Join(split_by_paragraphs(sec.content), <<NL, NL>>)>>

\* The stages of retrieve_context in their order.
StageRank(stage) ==
    CASE stage = "EMBED_QUERY" -> 1
      [] stage = "SEARCH" -> 2
      [] stage = "FUSE" -> 3
      [] stage = "RERANK" -> 4
      [] stage = "THRESHOLD" -> 5
      [] OTHER -> 0

\* The named stages of the trace, in the order they were executed (the
\* plain truncation that replaces RERANK is not one of them).
Stages == SelectSeq([k \in 1..Len(rt_trace) |-> rt_trace[k][1]],
                    LAMBDA stage : StageRank(stage) > 0)

\* The stages executed so far are in the order of StageRank, none twice, and
\* each conditional stage ran only under its condition.
StagesInOrder ==
    /\ \A k \in 1..(Len(Stages) - 1) : StageRank(Stages[k]) < StageRank(Stages[k + 1])
    /\ Len(Stages) > 0 => Stages[1] = "EMBED_QUERY"
    /\ \A k \in 1..Len(rt_trace) :
           /\ rt_trace[k][1] = "SEARCH" =>
                  k > 1 /\ rt_trace[k - 1] = <<"EMBED_QUERY", "vector">>
           /\ rt_trace[k][1] = "FUSE" => rt_hybrid
           /\ rt_trace[k][1] = "RERANK" => rt_rerank
           /\ rt_trace[k][1] = "THRESHOLD" => rt_threshold # None
    /\ rt_pc = "done" => Len(Stages) > 0

\* A step that executes RERANK starts with at least one candidate.
RerankHasCandidates ==
    (Len(rt_trace') = Len(rt_trace) + 1 /\ rt_trace'[Len(rt_trace')][1] = "RERANK")
        => Len(rt_results) > 0

\* C26: retrieve_context executes its stages only in the order EMBED_QUERY,
\* SEARCH, FUSE (only if use_hybrid), RERANK (only if rerank and at least one
\* candidate), THRESHOLD (only if score_threshold is set), DONE, each at
\* most once; the vector store is searched only after the query embedding
\* succeeded.
C26_StageOrder == []StagesInOrder /\ [][RerankHasCandidates]_vars

\* A hybrid request with rerank and a threshold has returned after all five
\* stages.
C26_Witness ==
    /\ rt_pc = "done"
    /\ Stages = <<"EMBED_QUERY", "SEARCH", "FUSE", "RERANK", "THRESHOLD">>
    /\ Len(rt_results) > 0

\* C27: a Chunk is immutable once created: no step of the chunker, in
\* particular no merge_small_chunks call, changes the content, token_count,
\* chunk_index or section of a chunk of the list it works on.
C27_ChunksImmutable ==
    [][\A k \in 1..Len(chunks) :
           Len(chunks') >= k =>
               /\ chunks'[k].content = chunks[k].content
               /\ chunks'[k].token_count = chunks[k].token_count
               /\ chunks'[k].chunk_index = chunks[k].chunk_index
               /\ chunks'[k].section = chunks[k].section]_vars

\* C28: chunk_by_size terminates for every chunk_size >= 1 and overlap >= 0:
\* on every iteration of its loop that does not leave the loop the window
\* start strictly increases, so the loop never reaches the cap on the number
\* of chunks that an endless run is cut at.
C28_StartIncreases ==
    /\ [](ck_pc = "by_size" => Len(chunks) < MaxChunks)
    /\ [][(ck_pc = "by_size" /\ ck_pc' = "by_size") => start' > start]_vars

\* C29: between calls, whatever collaborator call failed in the upload_file
\* and delete_file calls made so far, a file record that is marked deleted
\* has no vectors left in the vector store.
C29_DeletedHasNoVectors ==
    \A file_id \in 1..Len(db_files) :
        db_files[file_id].is_deleted =>
            ~\E p \in qd_points : p.payload.file_id = file_id

\* What the collaborators answered in a trace: the entries of the query
\* embedding and of the store search.
Answers(trace) == SelectSeq(trace, LAMBDA e : e[1] \in {"EMBED_QUERY", "SEARCH"})

\* The plain call that follows a hybrid call has returned, the provider and
\* the store having answered both calls alike.
PlainAfterHybrid ==
    /\ rt_pc = "done"
    /\ rt_run = 2
    /\ ~rt_hybrid
    /\ Answers(rt_first[1].trace) = Answers(rt_trace)

\* C30: since keyword search finds nothing, retrieve_context with
\* use_hybrid = true returns the same sequence of ids with the same scores
\* as with use_hybrid = false, for every collection, limit, rerank flag and
\* score_threshold.
C30_HybridEqualsPlain ==
    PlainAfterHybrid =>
        /\ Ids(rt_results) = Ids(rt_first[1].results)
        /\ [k \in 1..Len(rt_results) |-> rt_results[k].score] =
               [k \in 1..Len(rt_first[1].results) |-> rt_first[1].results[k].score]

====
